---- MODULE Spec2Model ----
(***************************************************************************)
(* Model of the keystone utility crate (src/src/lib.rs): the tr! ternary   *)
(* macro, the serde_defaulted_struct! generator together with the program  *)
(* its expansion yields, and the PrintResult trait.                        *)
(***************************************************************************)
EXTENDS Integers, Sequences, FiniteSets, TLC

\* ----------------------------------------------------------------------
\* Bounds of the exploration
\* ----------------------------------------------------------------------
MaxFields == 2
MaxDerives == 1
MaxDefaults == 2
MaxProviderCalls == 1
MaxDecodes == 1
MaxArms == 2
MaxPrints == 3

\* ----------------------------------------------------------------------
\* Macro input fragments of serde_defaulted_struct!
\* ----------------------------------------------------------------------
\* $name:ident of a field; a $default_path literal "<defaults>::<name>" is
\* represented by the <name> it ends in.
Names == {"thing", "foo"}

\* $vis:vis of a field
Vis == {"pub"}

\* $type:ty
Types == {"i32", "bool", "Vec"}

\* $default:expr : the literals 1 and false, COUNTER.fetch_add(1, SeqCst) on a
\* global atomic, vec![0] (v: its length), and "x".parse::<i32>().unwrap()
\* (which panics)
Exprs ==
    { [k |-> "lit_i32", v |-> 1],
      [k |-> "lit_bool", v |-> 0],
      [k |-> "fetch_add", v |-> 0],
      [k |-> "vec_lit", v |-> 1],
      [k |-> "unwrap", v |-> 0] }

\* $macro:ident of the derive list; Hash2 names no derive macro in scope
DeriveIdents == {"PartialEq", "Hash2"}
KnownDerives == {"PartialEq", "::serde::Serialize", "::serde::Deserialize"}

\* static type of a $default expression
TypeOf(e) ==
    CASE e.k = "lit_i32" -> "i32"
      [] e.k = "lit_bool" -> "bool"
      [] e.k = "fetch_add" -> "i32"
      [] e.k = "vec_lit" -> "Vec"
      [] e.k = "unwrap" -> "i32"

Assignable(e, ty) == TypeOf(e) = ty

\* one `$vis $name : $type => ($default => $default_path)` repetition; the
\* declarations whose default has the wrong type are those that give the
\* literal 1 to a field that is not an integer
FieldDecls ==
    { d \in [vis : Vis, name : Names, type : Types, default : Exprs, default_path : Names] :
        Assignable(d.default, d.type) \/ d.default.k = "lit_i32" }

SeqsUpTo(S, n) == UNION { [1..m -> S] : m \in 0..n }

\* the two invocation shapes: `Name, defaults {..}` and `Name(m1, ..), defaults {..}`
PlainInvocations ==
    { [arm |-> "plain", macros |-> <<>>, fields |-> fs] : fs \in SeqsUpTo(FieldDecls, MaxFields) }

DeriveInvocations ==
    { [arm |-> "derive", macros |-> ms, fields |-> fs] :
        ms \in SeqsUpTo(DeriveIdents, MaxDerives), fs \in SeqsUpTo(FieldDecls, MaxFields) }

Range(s) == { s[i] : i \in DOMAIN s }

\* ----------------------------------------------------------------------
\* Expansion of serde_defaulted_struct!
\* ----------------------------------------------------------------------
\* variant of the first arm: every initialiser of the Default impl is the
\* first field's default expression
ExpandPlain_FirstInit(fields) ==
    [derives |-> <<"::serde::Serialize", "::serde::Deserialize">>,
     struct |->
        [i \in DOMAIN fields |->
            [serde_default |-> fields[i].default_path, vis |-> fields[i].vis,
             name |-> fields[i].name, type |-> fields[i].type]],
     defaults |->
        [i \in DOMAIN fields |->
            [name |-> fields[i].name, ret |-> fields[i].type, body |-> fields[i].default]],
     default_impl |->
        [i \in DOMAIN fields |-> [name |-> fields[i].name, init |-> fields[1].default]]]

\* first arm (no derive list): the derive attribute and struct, the defaults
\* module with one fn per field, and the Default impl with one initialiser
\* per field, each repetition in written order
ExpandPlain(fields) ==
    [derives |-> <<"::serde::Serialize", "::serde::Deserialize">>,
     struct |->
        [i \in DOMAIN fields |->
            [serde_default |-> fields[i].default_path, vis |-> fields[i].vis,
             name |-> fields[i].name, type |-> fields[i].type]],
     defaults |->
        [i \in DOMAIN fields |->
            [name |-> fields[i].name, ret |-> fields[i].type, body |-> fields[i].default]],
     default_impl |->
        [i \in DOMAIN fields |-> [name |-> fields[i].name, init |-> fields[i].default]]]

\* variant of the second arm: every fn of the defaults module has the first
\* field's default expression as its body
ExpandDerive_FirstBody(macros, fields) ==
    [derives |-> <<"::serde::Serialize", "::serde::Deserialize">> \o macros,
     struct |->
        [i \in DOMAIN fields |->
            [serde_default |-> fields[i].default_path, vis |-> fields[i].vis,
             name |-> fields[i].name, type |-> fields[i].type]],
     defaults |->
        [i \in DOMAIN fields |->
            [name |-> fields[i].name, ret |-> fields[i].type, body |-> fields[1].default]],
     default_impl |->
        [i \in DOMAIN fields |-> [name |-> fields[i].name, init |-> fields[i].default]]]

\* variant of the second arm: the derive list is dropped
ExpandDerive_NoMacros(macros, fields) ==
    [derives |-> <<"::serde::Serialize", "::serde::Deserialize">>,
     struct |->
        [i \in DOMAIN fields |->
            [serde_default |-> fields[i].default_path, vis |-> fields[i].vis,
             name |-> fields[i].name, type |-> fields[i].type]],
     defaults |->
        [i \in DOMAIN fields |->
            [name |-> fields[i].name, ret |-> fields[i].type, body |-> fields[i].default]],
     default_impl |->
        [i \in DOMAIN fields |-> [name |-> fields[i].name, init |-> fields[i].default]]]

\* variant of the second arm: the struct fields lose their $vis
ExpandDerive_NoVis(macros, fields) ==
    [derives |-> <<"::serde::Serialize", "::serde::Deserialize">> \o macros,
     struct |->
        [i \in DOMAIN fields |->
            [serde_default |-> fields[i].default_path, vis |-> "",
             name |-> fields[i].name, type |-> fields[i].type]],
     defaults |->
        [i \in DOMAIN fields |->
            [name |-> fields[i].name, ret |-> fields[i].type, body |-> fields[i].default]],
     default_impl |->
        [i \in DOMAIN fields |-> [name |-> fields[i].name, init |-> fields[i].default]]]

\* second arm: `$struct_name($($macro),*)`, the macros appended to the derives
ExpandDerive(macros, fields) ==
    [derives |-> <<"::serde::Serialize", "::serde::Deserialize">> \o macros,
     struct |->
        [i \in DOMAIN fields |->
            [serde_default |-> fields[i].default_path, vis |-> fields[i].vis,
             name |-> fields[i].name, type |-> fields[i].type]],
     defaults |->
        [i \in DOMAIN fields |->
            [name |-> fields[i].name, ret |-> fields[i].type, body |-> fields[i].default]],
     default_impl |->
        [i \in DOMAIN fields |-> [name |-> fields[i].name, init |-> fields[i].default]]]

\* macro_rules! arm selection
Expand(inv) ==
    IF inv.arm = "plain" THEN ExpandPlain(inv.fields)
    ELSE ExpandDerive(inv.macros, inv.fields)

\* ----------------------------------------------------------------------
\* Compilation of the expanded items
\* ----------------------------------------------------------------------
NoDuplicates(s) == \A i, j \in DOMAIN s : s[i] = s[j] => i = j

Idents(items) == [i \in DOMAIN items |-> items[i].name]

\* variant of the compilation: repeated field and fn names are let through
Compiles_DuplicatesAllowed(x) ==
    /\ \A i \in DOMAIN x.derives : x.derives[i] \in KnownDerives
    /\ NoDuplicates(x.derives)
    /\ \A i \in DOMAIN x.defaults : Assignable(x.defaults[i].body, x.defaults[i].ret)
    /\ Range(Idents(x.default_impl)) = Range(Idents(x.struct))
    /\ \A i \in DOMAIN x.default_impl : \A j \in DOMAIN x.struct :
          x.default_impl[i].name = x.struct[j].name
              => Assignable(x.default_impl[i].init, x.struct[j].type)
    /\ \A j \in DOMAIN x.struct : \E i \in DOMAIN x.defaults :
          /\ x.defaults[i].name = x.struct[j].serde_default
          /\ x.defaults[i].ret = x.struct[j].type

\* the items of one expansion compile: every derive resolves and is applied
\* once, field and fn names are unique, every fn body and field initialiser
\* has the declared type, every serde default path names a fn of the field type
Compiles(x) ==
    /\ \A i \in DOMAIN x.derives : x.derives[i] \in KnownDerives
    /\ NoDuplicates(x.derives)
    /\ NoDuplicates(Idents(x.struct))
    /\ NoDuplicates(Idents(x.defaults))
    /\ \A i \in DOMAIN x.defaults : Assignable(x.defaults[i].body, x.defaults[i].ret)
    /\ NoDuplicates(Idents(x.default_impl))
    /\ Range(Idents(x.default_impl)) = Range(Idents(x.struct))
    /\ \A i \in DOMAIN x.default_impl : \A j \in DOMAIN x.struct :
          x.default_impl[i].name = x.struct[j].name
              => Assignable(x.default_impl[i].init, x.struct[j].type)
    /\ \A j \in DOMAIN x.struct : \E i \in DOMAIN x.defaults :
          /\ x.defaults[i].name = x.struct[j].serde_default
          /\ x.defaults[i].ret = x.struct[j].type

\* ----------------------------------------------------------------------
\* Evaluation of default expressions in the generated program
\* ----------------------------------------------------------------------
\* variant of the evaluation: vec![0] hands out one shared allocation
EvalExpr_SharedVec(e, name, st) ==
    IF ~st.ok THEN st
    ELSE LET counted == [st EXCEPT !.evals[name] = @ + 1] IN
         CASE e.k \in {"lit_i32", "lit_bool"} ->
                [counted EXCEPT !.vals = Append(@, [t |-> TypeOf(e), v |-> e.v])]
           [] e.k = "fetch_add" ->
                [counted EXCEPT !.vals = Append(@, [t |-> "i32", v |-> st.counter]),
                                !.counter = @ + 1]
           [] e.k = "vec_lit" ->
                IF st.heap = <<>>
                THEN [counted EXCEPT !.vals = Append(@, [t |-> "Vec", v |-> 1]),
                                     !.heap = Append(@, e.v)]
                ELSE [counted EXCEPT !.vals = Append(@, [t |-> "Vec", v |-> 1])]
           [] e.k = "unwrap" ->
                [counted EXCEPT !.ok = FALSE]

\* variant of the evaluation: a second fetch_add overflows and panics
EvalExpr_Overflow(e, name, st) ==
    IF ~st.ok THEN st
    ELSE LET counted == [st EXCEPT !.evals[name] = @ + 1] IN
         CASE e.k \in {"lit_i32", "lit_bool"} ->
                [counted EXCEPT !.vals = Append(@, [t |-> TypeOf(e), v |-> e.v])]
           [] e.k = "fetch_add" ->
                IF st.counter >= 1
                THEN [counted EXCEPT !.ok = FALSE]
                ELSE [counted EXCEPT !.vals = Append(@, [t |-> "i32", v |-> st.counter]),
                                     !.counter = @ + 1]
           [] e.k = "vec_lit" ->
                [counted EXCEPT !.vals = Append(@, [t |-> "Vec", v |-> Len(st.heap) + 1]),
                                !.heap = Append(@, e.v)]
           [] e.k = "unwrap" ->
                [counted EXCEPT !.ok = FALSE]

\* st = [ok, vals, counter, heap, evals, calls, via]: ok is FALSE once an
\* expression has panicked, vals the values produced so far, counter the
\* global atomic, heap the contents (lengths) of the allocated Vecs, evals the
\* number of times each field's default expression has been evaluated, calls
\* and via the provider calls made by the deserializer
EvalExpr(e, name, st) ==
    IF ~st.ok THEN st
    ELSE LET counted == [st EXCEPT !.evals[name] = @ + 1] IN
         CASE e.k \in {"lit_i32", "lit_bool"} ->
                [counted EXCEPT !.vals = Append(@, [t |-> TypeOf(e), v |-> e.v])]
           [] e.k = "fetch_add" ->
                [counted EXCEPT !.vals = Append(@, [t |-> "i32", v |-> st.counter]),
                                !.counter = @ + 1]
           [] e.k = "vec_lit" ->
                [counted EXCEPT !.vals = Append(@, [t |-> "Vec", v |-> Len(st.heap) + 1]),
                                !.heap = Append(@, e.v)]
           [] e.k = "unwrap" ->
                [counted EXCEPT !.ok = FALSE]

\* Self { $($name: $default,)* } : the initialisers run in written order
RECURSIVE EvalInits(_, _, _)
EvalInits(inits, n, st) ==
    IF n = 0 THEN st
    ELSE EvalExpr(inits[n].init, inits[n].name, EvalInits(inits, n - 1, st))

\* the struct value built from the values of named items, keyed by field name
Record(items, vals) ==
    [n \in Range(Idents(items)) |-> vals[CHOOSE k \in DOMAIN items : items[k].name = n]]

\* the fn of the defaults module called `name`
FnNamed(fns, name) == fns[CHOOSE i \in DOMAIN fns : fns[i].name = name]

\* ----------------------------------------------------------------------
\* State of one program that invokes serde_defaulted_struct! once
\* ----------------------------------------------------------------------
VARIABLES
    invocation,     \* the macro invocation as written
    phase,          \* "source", "rejected", "running" or "panicked"
    items,          \* the compiled expansion: {} or a one-element set
    COUNTER,        \* the global atomic read by fetch_add defaults
    heap,           \* contents (lengths) of the allocated Vecs
    evals,          \* evaluations of each field's default expression
    defaultCalls,   \* calls of Default::default()
    providerCalls,  \* calls of each fn of the defaults module
    insts,          \* the instances returned by Default::default()
    returned,       \* the values returned by direct provider calls
    wire,           \* serialized form: field name -> value
    wireFrom,       \* index in insts of the serialized instance, 0 if none
    decoded,        \* the deserialized instances (at most one)
    via             \* (field, provider) pairs serde fell back on

genVars == <<invocation, phase, items, COUNTER, heap, evals, defaultCalls,
             providerCalls, insts, returned, wire, wireFrom, decoded, via>>

VARIABLES
    trInput,    \* the tr! invocation as written
    trPos,      \* index of the `if` whose test is evaluated next
    trPc,       \* "test", "then", "else" or "done" ("idle": no tr! in the program)
    trTrace,    \* the expressions evaluated so far, in order
    trResult    \* the value of the whole expression: <<>> or <<v>>

trVars == <<trInput, trPos, trPc, trTrace, trResult>>

VARIABLES
    stdout,     \* the lines printed so far
    prCalls,    \* the calls made so far: method, receiver and msg argument
    prReturns   \* the number of calls that have returned

prVars == <<stdout, prCalls, prReturns>>

Zero == [n \in Names |-> 0]
NoWire == [n \in {} |-> 0]

\* before the build nothing has been generated or run
NothingRun ==
    /\ phase = "source"
    /\ items = {}
    /\ COUNTER = 0
    /\ heap = <<>>
    /\ evals = Zero
    /\ defaultCalls = 0
    /\ providerCalls = Zero
    /\ insts = <<>>
    /\ returned = <<>>
    /\ wire = NoWire
    /\ wireFrom = 0
    /\ decoded = <<>>
    /\ via = {}

Gen == CHOOSE x \in items : TRUE

Machine ==
    [ok |-> TRUE, vals |-> <<>>, counter |-> COUNTER, heap |-> heap, evals |-> evals,
     calls |-> providerCalls, via |-> via]

\* the build: macro expansion followed by compilation of the expanded items
Define ==
    /\ phase = "source"
    /\ IF Compiles(Expand(invocation))
       THEN phase' = "running" /\ items' = {Expand(invocation)}
       ELSE phase' = "rejected" /\ items' = {}
    /\ UNCHANGED <<invocation, COUNTER, heap, evals, defaultCalls, providerCalls,
                   insts, returned, wire, wireFrom, decoded, via, trVars, prVars>>

\* <$struct_name as Default>::default()
CallDefault ==
    /\ phase = "running"
    /\ defaultCalls < MaxDefaults
    /\ \E st \in {EvalInits(Gen.default_impl, Len(Gen.default_impl), Machine)} :
        /\ defaultCalls' = defaultCalls + 1
        /\ COUNTER' = st.counter
        /\ heap' = st.heap
        /\ evals' = st.evals
        /\ IF st.ok
           THEN phase' = phase /\ insts' = Append(insts, Record(Gen.default_impl, st.vals))
           ELSE phase' = "panicked" /\ insts' = insts
    /\ UNCHANGED <<invocation, items, providerCalls, returned,
                   wire, wireFrom, decoded, via, trVars, prVars>>

\* $defaults_name::$name()
CallProvider(name) ==
    /\ phase = "running"
    /\ Len(returned) < MaxProviderCalls
    /\ \E i \in DOMAIN Gen.defaults : Gen.defaults[i].name = name
    /\ \E st \in {EvalExpr(FnNamed(Gen.defaults, name).body, name, Machine)} :
        /\ providerCalls' = [providerCalls EXCEPT ![name] = @ + 1]
        /\ COUNTER' = st.counter
        /\ heap' = st.heap
        /\ evals' = st.evals
        /\ IF st.ok
           THEN phase' = phase /\ returned' = Append(returned, [fn |-> name, val |-> st.vals[1]])
           ELSE phase' = "panicked" /\ returned' = returned
    /\ UNCHANGED <<invocation, items, defaultCalls, insts,
                   wire, wireFrom, decoded, via, trVars, prVars>>

\* ----------------------------------------------------------------------
\* The derived Serialize / Deserialize implementations
\* ----------------------------------------------------------------------
\* a field is written by value: a Vec as its contents, not its address
Encode(val, h) == [t |-> val.t, v |-> IF val.t = "Vec" THEN h[val.v] ELSE val.v]

\* derive(Serialize): one entry per struct field, keyed by the field name
SerializeStruct(struct, inst, h) ==
    [n \in Range(Idents(struct)) |-> Encode(inst[n], h)]

\* a field read back: a Vec is rebuilt in a fresh allocation
DecodeValue(w, st) ==
    IF w.t = "Vec"
    THEN [st EXCEPT !.vals = Append(@, [t |-> "Vec", v |-> Len(st.heap) + 1]),
                    !.heap = Append(@, w.v)]
    ELSE [st EXCEPT !.vals = Append(@, w)]

\* variant of the deserializer: a missing field takes the default of its
\* type (0, false, an empty Vec) and no provider is called
DecodeField_TypeDefault(field, defaults, w, st) ==
    IF ~st.ok THEN st
    ELSE IF field.name \in DOMAIN w THEN DecodeValue(w[field.name], st)
    ELSE DecodeValue([t |-> field.type, v |-> 0], st)

\* derive(Deserialize) with #[serde(default = $default_path)]: a field present
\* in the input is decoded, a missing one is produced by calling the path
DecodeField(field, defaults, w, st) ==
    IF ~st.ok THEN st
    ELSE IF field.name \in DOMAIN w THEN DecodeValue(w[field.name], st)
    ELSE LET fn == FnNamed(defaults, field.serde_default) IN
         EvalExpr(fn.body, fn.name,
                  [st EXCEPT !.calls[fn.name] = @ + 1,
                             !.via = @ \cup {[field |-> field.name, fn |-> fn.name]}])

RECURSIVE DecodeFields(_, _, _, _, _)
DecodeFields(struct, defaults, w, n, st) ==
    IF n = 0 THEN st
    ELSE DecodeField(struct[n], defaults, w, DecodeFields(struct, defaults, w, n - 1, st))

\* serialize one of the default-constructed instances
Serialize(i) ==
    /\ phase = "running"
    /\ i \in DOMAIN insts
    /\ decoded = <<>>
    /\ wireFrom = 0
    /\ wire' = SerializeStruct(Gen.struct, insts[i], heap)
    /\ wireFrom' = i
    /\ UNCHANGED <<invocation, phase, items, COUNTER, heap, evals, defaultCalls,
                   providerCalls, insts, returned, decoded, via, trVars, prVars>>

\* the stored form loses a field (data written before the field existed)
RemoveField(f) ==
    /\ phase = "running"
    /\ wireFrom # 0
    /\ decoded = <<>>
    /\ f \in DOMAIN wire
    /\ wire' = [n \in DOMAIN wire \ {f} |-> wire[n]]
    /\ UNCHANGED <<invocation, phase, items, COUNTER, heap, evals, defaultCalls,
                   providerCalls, insts, returned, wireFrom, decoded, via, trVars, prVars>>

\* deserialize the stored form
Deserialize ==
    /\ phase = "running"
    /\ wireFrom # 0
    /\ Len(decoded) < MaxDecodes
    /\ \E st \in {DecodeFields(Gen.struct, Gen.defaults, wire, Len(Gen.struct), Machine)} :
        /\ COUNTER' = st.counter
        /\ heap' = st.heap
        /\ evals' = st.evals
        /\ providerCalls' = st.calls
        /\ via' = st.via
        /\ IF st.ok
           THEN phase' = phase /\ decoded' = Append(decoded, Record(Gen.struct, st.vals))
           ELSE phase' = "panicked" /\ decoded' = decoded
    /\ UNCHANGED <<invocation, items, defaultCalls, insts, returned,
                   wire, wireFrom, trVars, prVars>>

\* ----------------------------------------------------------------------
\* tr!
\* ----------------------------------------------------------------------
\* values of the $a / $b expressions
TrVals == 0..1

\* `$condition => $a` : the value each expression evaluates to
TrArms == [condition : BOOLEAN, a : TrVals]

\* the two invocation shapes: `c1 => a1, c2 => a2 ; b` and `c, a, b`
TrInvocations ==
    { [form |-> "arms", arms |-> as, b |-> b] :
        as \in SeqsUpTo(TrArms, MaxArms) \ {<<>>}, b \in TrVals }
    \cup
    { [form |-> "ternary", arms |-> <<arm>>, b |-> b] : arm \in TrArms, b \in TrVals }

\* first arm: $(if $condition {$a} else)+ {$b}
TrExpandArms(arms, b) ==
    [ifs |-> [i \in DOMAIN arms |-> [test |-> arms[i].condition, then |-> arms[i].a]],
     else |-> b]

\* variant of the second arm: the two blocks are swapped
TrExpandTernary_Swapped(condition, a, b) ==
    [ifs |-> <<[test |-> condition, then |-> b]>>, else |-> a]

\* second arm: if $condition {$a} else {$b}
TrExpandTernary(condition, a, b) ==
    [ifs |-> <<[test |-> condition, then |-> a]>>, else |-> b]

TrExpand(t) ==
    IF t.form = "arms" THEN TrExpandArms(t.arms, t.b)
    ELSE TrExpandTernary(t.arms[1].condition, t.arms[1].a, t.b)

TrInit ==
    /\ trInput \in TrInvocations
    /\ trPos = 1
    /\ trPc = "test"
    /\ trTrace = <<>>
    /\ trResult = <<>>

\* evaluate the test of the current `if`
TrTest ==
    /\ trPc = "test"
    /\ LET chain == TrExpand(trInput) IN
        /\ trTrace' = Append(trTrace, [e |-> "condition", i |-> trPos])
        /\ IF chain.ifs[trPos].test
           THEN trPc' = "then" /\ trPos' = trPos
           ELSE IF trPos < Len(chain.ifs)
                THEN trPc' = "test" /\ trPos' = trPos + 1
                ELSE trPc' = "else" /\ trPos' = trPos
    /\ UNCHANGED <<trInput, trResult, genVars, prVars>>

\* evaluate the block of the `if` whose test was true
TrThen ==
    /\ trPc = "then"
    /\ trTrace' = Append(trTrace, [e |-> "a", i |-> trPos])
    /\ trResult' = <<TrExpand(trInput).ifs[trPos].then>>
    /\ trPc' = "done"
    /\ UNCHANGED <<trInput, trPos, genVars, prVars>>

\* evaluate the final else block
TrElse ==
    /\ trPc = "else"
    /\ trTrace' = Append(trTrace, [e |-> "b", i |-> 0])
    /\ trResult' = <<TrExpand(trInput).else>>
    /\ trPc' = "done"
    /\ UNCHANGED <<trInput, trPos, genVars, prVars>>

TrNext == TrTest \/ TrThen \/ TrElse

\* ----------------------------------------------------------------------
\* PrintResult
\* ----------------------------------------------------------------------
\* the Result values print_err / print_err_msg are called on
Results == { [ok |-> TRUE, err |-> "none"],
             [ok |-> FALSE, err |-> "NotFound"],
             [ok |-> FALSE, err |-> "Denied"] }

Msgs == {"Error", "load"}

\* <E as Display>::fmt
Display(err) ==
    CASE err = "NotFound" -> "entity not found"
      [] err = "Denied" -> "permission denied"

PrInit ==
    /\ stdout = <<>>
    /\ prCalls = <<>>
    /\ prReturns = 0

\* impl PrintResult for Result<T, E>: if let Err(err) = self { println!("{msg}: {err}") }
print_err_msg(self, msg, out) ==
    IF ~self.ok THEN Append(out, msg \o ": " \o Display(self.err)) ELSE out

\* variant of the provided method: the message is passed through empty
print_err_NoMsg(self, out) == print_err_msg(self, "", out)

\* provided method of the trait: self.print_err_msg("Error")
print_err(self, out) == print_err_msg(self, "Error", out)

PrintErrMsg(r, msg) ==
    /\ Len(prCalls) < MaxPrints
    /\ prCalls' = Append(prCalls, [method |-> "print_err_msg", self |-> r, msg |-> msg])
    /\ stdout' = print_err_msg(r, msg, stdout)
    /\ prReturns' = prReturns + 1
    /\ UNCHANGED <<genVars, trVars>>

PrintErr(r) ==
    /\ Len(prCalls) < MaxPrints
    /\ prCalls' = Append(prCalls, [method |-> "print_err", self |-> r, msg |-> ""])
    /\ stdout' = print_err(r, stdout)
    /\ prReturns' = prReturns + 1
    /\ UNCHANGED <<genVars, trVars>>

PrNext ==
    \/ \E r \in Results, m \in Msgs : PrintErrMsg(r, m)
    \/ \E r \in Results : PrintErr(r)

\* ----------------------------------------------------------------------
\* Specifications
\* ----------------------------------------------------------------------
vars == <<genVars, trVars, prVars>>

\* a program that contains no invocation of the other macro / no Result
GenIdle ==
    /\ invocation = [arm |-> "plain", macros |-> <<>>, fields |-> <<>>]
    /\ NothingRun

TrIdle ==
    /\ trInput = [form |-> "ternary", arms |-> <<[condition |-> TRUE, a |-> 0]>>, b |-> 0]
    /\ trPos = 1
    /\ trPc = "idle"
    /\ trTrace = <<>>
    /\ trResult = <<>>

\* a program that invokes serde_defaulted_struct! in either form and
\* constructs defaults
DefInit ==
    /\ invocation \in PlainInvocations \cup DeriveInvocations
    /\ NothingRun /\ TrIdle /\ PrInit
DefNext ==
    \/ Define
    \/ CallDefault
    \/ \E n \in Names : CallProvider(n)
DefSpec == DefInit /\ [][DefNext]_vars

\* a program that invokes the plain form, constructs defaults and passes
\* them through serde
Init ==
    /\ invocation \in PlainInvocations
    /\ NothingRun /\ TrIdle /\ PrInit
Next ==
    \/ Define
    \/ CallDefault
    \/ \E n \in Names : CallProvider(n)
    \/ \E i \in 1..MaxDefaults : Serialize(i)
    \/ \E n \in Names : RemoveField(n)
    \/ Deserialize
Spec == Init /\ [][Next]_vars

\* a program evaluating one tr! expression
TrSpecInit == GenIdle /\ TrInit /\ PrInit
TrSpec == TrSpecInit /\ [][TrNext]_vars

\* a program calling PrintResult methods
PrSpecInit == GenIdle /\ TrIdle /\ PrInit
PrSpec == PrSpecInit /\ [][PrNext]_vars

\* ----------------------------------------------------------------------
\* Properties of serde_defaulted_struct!
\* ----------------------------------------------------------------------
Schema == invocation.fields

\* the field of the schema as written called n
Decl(n) == Schema[CHOOSE j \in DOMAIN Schema : Schema[j].name = n]

FieldNames == { Schema[j].name : j \in DOMAIN Schema }

\* the value a default expression is seen to produce, by what it is
Produces(e, val) ==
    CASE e.k = "lit_i32" -> val = [t |-> "i32", v |-> e.v]
      [] e.k = "lit_bool" -> val = [t |-> "bool", v |-> e.v]
      [] e.k = "fetch_add" -> val.t = "i32" /\ val.v \in 0..(COUNTER - 1)
      [] e.k = "vec_lit" -> val.t = "Vec" /\ val.v \in DOMAIN heap /\ heap[val.v] = 1
      [] e.k = "unwrap" -> FALSE

\* C1: every instance returned by Default::default() has exactly the fields
\* of the schema, and each field holds the value of that field's own
\* default expression (thing: i32 default 1, foo: bool default false gives
\* thing == 1 and foo == false)
C1_DefaultHoldsFieldDefaults ==
    \A i \in DOMAIN insts :
        /\ DOMAIN insts[i] = FieldNames
        /\ \A n \in FieldNames : Produces(Decl(n).default, insts[i][n])

\* the doctest schema has been default-constructed
C1_Witness ==
    /\ Len(Schema) = 2
    /\ Schema[1].name = "thing" /\ Schema[1].default = [k |-> "lit_i32", v |-> 1]
    /\ Schema[2].name = "foo" /\ Schema[2].default = [k |-> "lit_bool", v |-> 0]
    /\ Len(insts) = 1
    /\ insts[1]["thing"].v = 1 /\ insts[1]["foo"].v = 0

\* a default expression whose value is the same at every evaluation
Deterministic(e) == e.k # "fetch_add"

\* C2 as stated: the value returned by a field's provider equals the value
\* the field holds in every freshly default-constructed instance
C2_ProviderEqualsDefaultField ==
    \A k \in DOMAIN returned : \A i \in DOMAIN insts :
        Encode(returned[k].val, heap) = Encode(insts[i][returned[k].fn], heap)

\* C2 amended: the same, for the fields whose default expression yields the
\* same value at every evaluation
C2_ProviderEqualsDefaultFieldIfDeterministic ==
    \A k \in DOMAIN returned : \A i \in DOMAIN insts :
        Deterministic(Decl(returned[k].fn).default)
            => Encode(returned[k].val, heap) = Encode(insts[i][returned[k].fn], heap)

\* a provider of a literal-defaulted field was called beside a default()
C2_Witness ==
    /\ Len(returned) = 1
    /\ Len(insts) = 1
    /\ Decl(returned[1].fn).default = [k |-> "lit_i32", v |-> 1]
    /\ returned[1].val.v = 1
    /\ invocation.arm = "derive"

\* derived PartialEq: field by field, a Vec by its contents
InstEq(a, b) ==
    /\ DOMAIN a = DOMAIN b
    /\ \A n \in DOMAIN a : Encode(a[n], heap) = Encode(b[n], heap)

Removed == FieldNames \ DOMAIN wire

\* C3 as stated: after serializing a default-constructed instance and
\* removing fields from the serialized form, deserializing rebuilds each
\* removed field through that field's own provider and the result equals
\* the original instance
C3_RoundTripRestoresRemovedField ==
    (Len(decoded) = 1 /\ Removed # {})
        => /\ via = { [field |-> n, fn |-> n] : n \in Removed }
           /\ InstEq(decoded[1], insts[wireFrom])

RemovedAreOwnAndDeterministic ==
    \A n \in Removed : Decl(n).default_path = n /\ Deterministic(Decl(n).default)

\* C3 amended: the same, when every removed field's serde default path names
\* that field's own provider and its default expression yields the same
\* value at every evaluation
C3_RoundTripRestoresOwnDeterministicField ==
    (Len(decoded) = 1 /\ Removed # {}
        /\ RemovedAreOwnAndDeterministic)
        => /\ via = { [field |-> n, fn |-> n] : n \in Removed }
           /\ InstEq(decoded[1], insts[wireFrom])

\* a two-field instance lost `thing` on the wire and was read back
C3_Witness ==
    /\ Len(decoded) = 1
    /\ Removed = {"thing"}
    /\ Len(Schema) = 2
    /\ RemovedAreOwnAndDeterministic
    /\ decoded[1]["thing"].v = 1

SerdeDerives == {"::serde::Serialize", "::serde::Deserialize"}

\* C4: the derives attached to the generated type beyond serde's two are
\* exactly the requested macros, each once (none for an absent or empty list)
C4_ExactlyRequestedDerives ==
    phase \in {"running", "panicked"} =>
        /\ { Gen.derives[i] : i \in DOMAIN Gen.derives } \ SerdeDerives
              = Range(invocation.macros)
        /\ Len(Gen.derives) = 2 + Len(invocation.macros)
        /\ invocation.arm = "plain" => Len(Gen.derives) = 2

\* a type was generated with a requested PartialEq
C4_Witness ==
    /\ phase = "running"
    /\ invocation.macros = <<"PartialEq">>
    /\ Len(Gen.struct) = 2

\* no two places that own a Vec hold the same allocation
Slots ==
    { <<"inst", i, n>> : i \in DOMAIN insts, n \in FieldNames }
    \cup { <<"decoded", i, n>> : i \in DOMAIN decoded, n \in FieldNames }
    \cup { <<"returned", i, "">> : i \in DOMAIN returned }

SlotValue(s) ==
    CASE s[1] = "inst" -> insts[s[2]][s[3]]
      [] s[1] = "decoded" -> decoded[s[2]][s[3]]
      [] s[1] = "returned" -> returned[s[2]].val

VecSlots == { s \in Slots : SlotValue(s).t = "Vec" }

NoAlias == Cardinality({ SlotValue(s).v : s \in VecSlots }) = Cardinality(VecSlots)

EvalsCounted == \A n \in FieldNames : evals[n] = defaultCalls + providerCalls[n]

DuplicateFieldName == \E i, j \in DOMAIN Schema : i # j /\ Schema[i].name = Schema[j].name
DefaultNotAssignable ==
    \E i \in DOMAIN Schema :
        \/ Schema[i].default.k = "lit_i32" /\ Schema[i].type # "i32"
        \/ Schema[i].default.k = "fetch_add" /\ Schema[i].type # "i32"
        \/ Schema[i].default.k = "unwrap" /\ Schema[i].type # "i32"
        \/ Schema[i].default.k = "lit_bool" /\ Schema[i].type # "bool"
        \/ Schema[i].default.k = "vec_lit" /\ Schema[i].type # "Vec"
UnknownCapability == \E i \in DOMAIN invocation.macros : invocation.macros[i] = "Hash2"
Malformed == DuplicateFieldName \/ DefaultNotAssignable \/ UnknownCapability

\* C6: once the build has run, a malformed schema has been rejected: there
\* is no type, and no constructor or provider has ever run
C6_MalformedRejectedAtDefinition ==
    (Malformed /\ phase # "source") =>
        /\ phase = "rejected"
        /\ items = {}
        /\ defaultCalls = 0 /\ insts = <<>> /\ returned = <<>> /\ decoded = <<>>
        /\ evals = Zero

\* a schema with a duplicate field name went through the build
C6_Witness ==
    /\ phase = "rejected"
    /\ DuplicateFieldName /\ ~DefaultNotAssignable /\ ~UnknownCapability

C10_ArmsAgree ==
    (phase \in {"running", "panicked"} /\ invocation.arm = "derive") =>
        LET plain == ExpandPlain(Schema) IN
        /\ Gen.struct = plain.struct
        /\ Gen.defaults = plain.defaults
        /\ Gen.default_impl = plain.default_impl
        /\ Gen.derives = plain.derives \o invocation.macros
        /\ invocation.macros = <<>> => Gen = plain

\* a type generated through the derive-list arm with an empty list
C10_Witness ==
    /\ phase = "running"
    /\ invocation.arm = "derive" /\ invocation.macros = <<>>
    /\ Len(Gen.struct) = 2

\* ----------------------------------------------------------------------
\* Properties of tr!
\* ----------------------------------------------------------------------
\* index of the first arm, in written order, whose condition is true; 0 if none
TrFirstTrue ==
    IF \E i \in DOMAIN trInput.arms : trInput.arms[i].condition
    THEN CHOOSE i \in DOMAIN trInput.arms :
            /\ trInput.arms[i].condition
            /\ \A j \in 1..(i - 1) : ~trInput.arms[j].condition
    ELSE 0

\* what may be evaluated: the conditions up to the first true one and its
\* value, or every condition and the fallback
TrExpectedTrace ==
    IF TrFirstTrue # 0
    THEN [i \in 1..TrFirstTrue |-> [e |-> "condition", i |-> i]]
            \o <<[e |-> "a", i |-> TrFirstTrue]>>
    ELSE [i \in 1..Len(trInput.arms) |-> [e |-> "condition", i |-> i]]
            \o <<[e |-> "b", i |-> 0]>>

IsPrefix(s, t) == Len(s) <= Len(t) /\ \A i \in DOMAIN s : s[i] = t[i]

\* C8: tr! evaluates to the value of the first arm whose condition is true
\* and to the fallback when none is; later conditions and the values of the
\* arms not selected are never evaluated, in either form of the macro
C8_TrSelectsFirstTrueArm ==
    /\ IsPrefix(trTrace, TrExpectedTrace)
    /\ trPc = "done" =>
          /\ trTrace = TrExpectedTrace
          /\ trResult = <<IF TrFirstTrue # 0 THEN trInput.arms[TrFirstTrue].a
                          ELSE trInput.b>>

\* tr!(false => 0, true => 1 ; 0) has been evaluated
C8_Witness ==
    /\ trPc = "done"
    /\ trInput.form = "arms"
    /\ Len(trInput.arms) = 2
    /\ ~trInput.arms[1].condition /\ trInput.arms[2].condition
    /\ trInput.arms[1].a = 0 /\ trInput.arms[2].a = 1 /\ trInput.b = 0
    /\ trResult = <<1>>

\* ----------------------------------------------------------------------
\* Properties of PrintResult
\* ----------------------------------------------------------------------
\* the line a call must have printed, if any
PrLines(call) ==
    IF call.self.ok THEN <<>>
    ELSE <<(IF call.method = "print_err" THEN "Error" ELSE call.msg)
            \o ": " \o Display(call.self.err)>>

RECURSIVE PrExpected(_, _)
PrExpected(calls, n) ==
    IF n = 0 THEN <<>> ELSE PrExpected(calls, n - 1) \o PrLines(calls[n])

====
